---- MODULE Spec2Model ----
(***************************************************************************)
(* A model of unix/uxstore.c, the Unix implementation of PuTTY's storage   *)
(* interface: the profile-name codec (mungestr / unmungestr), the session  *)
(* store (open_settings_w .. del_settings), the profile enumerator, the    *)
(* host-key trust store (verify_host_key / store_host_key) and the random  *)
(* seed store (read_random_seed / write_random_seed).                      *)
(*                                                                         *)
(* C strings are modelled as sequences of byte values 1..255 (the          *)
(* terminating NUL is implicit: reading one position past the end yields   *)
(* 0); the NULL char pointer is the one-element sequence NullStr, which is *)
(* no C string.  Files are sequences of bytes, a missing file is NoFile.   *)
(* A tree234 of keyvals is the set of its [key, value] elements.  Every    *)
(* API call is one action: the program is single-threaded and every call   *)
(* runs to completion.                                                     *)
(***************************************************************************)
EXTENDS Integers, Sequences, FiniteSets, TLC

VARIABLES
    charSigned,   \* build property: plain char is signed (TRUE) or unsigned
    codec,        \* position and values of the name-codec computation
    dirs,         \* which of ~/.putty and ~/.putty/sessions exist; writable?
    sessdir,      \* entries of ~/.putty/sessions: a set of [name, kind, data]
    hostkeys,     \* ~/.putty/sshhostkeys: NoFile or its bytes
    stored,       \* history: the store_host_key calls that wrote a line
    seed,         \* ~/.putty/randomseed: NoFile or its bytes
    xrmtree,      \* the static xrmtree: NULL or a tree of keyvals
    xdefaults,    \* what x_get_default answers: a set of keyvals
    whandle,      \* the FILE* returned by open_settings_w, or NULL
    rhandle,      \* the tree234* returned by open_settings_r, or NULL
    ehandle,      \* the DIR* returned by enum_settings_start, or NULL
    history,      \* history of the calls made on the open handle
    nopen,        \* number of OS file / stream / directory handles open
    exited,       \* the process has ended: exit() or a crash
    fd0free,      \* descriptor 0 is closed, so the next open() returns 0
    ret           \* the last call: its name, arguments and result

vars == <<charSigned, codec, dirs, sessdir, hostkeys, stored, seed, xrmtree,
          xdefaults, whandle, rhandle, ehandle, history, nopen, exited, fd0free,
          ret>>

\* the parts of the state, for the UNCHANGED clauses
envVars == <<charSigned, xdefaults, fd0free>>
sessVars == <<sessdir, xrmtree, whandle, rhandle, ehandle, history>>
trustVars == <<hostkeys, stored>>

\* the NULL char pointer
NullStr == <<0>>
\* a file that does not exist
NoFile == <<-1>>
\* the NULL tree234 pointer, and a pointer to a tree holding the elements t
NullTree == [null |-> TRUE, tree |-> {}]
Tree(t) == [null |-> FALSE, tree |-> t]
\* the value of the handle variable a caller keeps for open_settings_r:
\* not in use; and the pointer h returned for the profile name
NoRHandle == [inuse |-> FALSE, null |-> TRUE, tree |-> {}, name |-> <<>>]
RHandle(h, name) == [inuse |-> TRUE, null |-> h.null, tree |-> h.tree, name |-> name]

-----------------------------------------------------------------------------
(* Bounds of the model.                                                    *)

\* longest profile name drawn for the codec
MaxNameLen == 3
\* most lines store_host_key appends in one behaviour
MaxHostKeyLines == 2
\* most write_setting_* calls on one write handle
MaxWrites == 2
\* longest seed buffer handed to write_random_seed
MaxSeedLen == 3
\* most OS handles open at once (calls that would open one more are not made)
MaxOpen == 2

-----------------------------------------------------------------------------
(* Character codes named in the source.                                    *)

ChNL == 10
ChCR == 13
ChSpace == 32
ChPercent == 37
ChPlus == 43
ChMinus == 45
ChDot == 46
ChSlash == 47
Ch0 == 48
Ch9 == 57
ChColon == 58
ChEq == 61
ChAt == 64
ChA == 65
ChF == 70
ChZ == 90
ChUnderscore == 95
Cha == 97
Chz == 122

\* static const char hex[16] = "0123456789ABCDEF";
hex == <<48, 49, 50, 51, 52, 53, 54, 55, 56, 57, 65, 66, 67, 68, 69, 70>>

\* the literal "Default Settings" that mungestr substitutes for a NULL name
DefaultSettings ==
    <<68, 101, 102, 97, 117, 108, 116, 32, 83, 101, 116, 116, 105, 110, 103, 115>>

-----------------------------------------------------------------------------
(* C string primitives.                                                    *)

\* the value of a plain char holding byte b, as the build's char type sees it
CharVal(b) == IF charSigned /\ b >= 128 THEN b - 256 ELSE b

\* conversion of an int to a byte (the store *out++ = int)
ToByte(v) == v % 256

\* in[i] for a NUL-terminated string, i counted from 1; 0 is the terminator
At(s, i) == IF i <= Len(s) THEN s[i] ELSE 0

\* the C string a buffer holds: its bytes up to the first NUL
CStr(b) ==
    IF \E i \in 1..Len(b) : b[i] = 0
    THEN SubSeq(b, 1, (CHOOSE i \in 1..Len(b) :
                         b[i] = 0 /\ \A j \in 1..(i-1) : b[j] # 0) - 1)
    ELSE b

\* strncpy(buffer, val, buflen); buffer[buflen-1] = '\0';
StrNCpy(val, buflen) ==
    IF Len(val) < buflen THEN val ELSE SubSeq(val, 1, buflen - 1)

\* position of the first byte of s that is in set cs, or Len(s)+1 (strcspn+1)
RECURSIVE FirstIn(_, _, _)
FirstIn(s, cs, i) ==
    IF i > Len(s) THEN i
    ELSE IF s[i] \in cs THEN i
    ELSE FirstIn(s, cs, i + 1)

StartsWith(s, p) == Len(s) >= Len(p) /\ SubSeq(s, 1, Len(p)) = p

Drop(s, n) == SubSeq(s, n + 1, Len(s))

-----------------------------------------------------------------------------
(* Name codec.                                                             *)

\* opt-out instead of opt-in: only '%' and '/' are escaped
IsSafe_OptOut(b) == b # ChPercent /\ b # ChSlash

\* the opt-in test of mungestr: TRUE when the character is copied unescaped
IsSafe(b) ==
    LET c == CharVal(b) IN
    ~ (c # ChPlus /\ c # ChMinus /\ c # ChDot /\ c # ChAt /\ c # ChUnderscore
       /\ ~(c >= Ch0 /\ c <= Ch9)
       /\ ~(c >= ChA /\ c <= ChZ)
       /\ ~(c >= Cha /\ c <= Chz))

\* a slip in the escape: lower-case hexadecimal digits
MungeChar_LowerHex(b) ==
    LET lower == <<48, 49, 50, 51, 52, 53, 54, 55, 56, 57, 97, 98, 99, 100, 101, 102>> IN
    IF IsSafe(b) THEN <<b>>
    ELSE <<ChPercent, lower[(b \div 16) + 1], lower[(b % 16) + 1]>>

MungeChar(b) ==
    IF IsSafe(b) THEN <<b>>
    ELSE <<ChPercent, hex[(b \div 16) + 1], hex[(b % 16) + 1]>>

RECURSIVE MungeLoop(_, _)
MungeLoop(in, i) ==
    IF i > Len(in) THEN <<>>
    ELSE MungeChar(in[i]) \o MungeLoop(in, i + 1)

mungestr(in) == MungeLoop(IF in = NullStr THEN DefaultSettings ELSE in, 1)

\* i = in[k] - '0'; i -= (i > 9 ? 7 : 0);
HexVal(b) ==
    LET i == CharVal(b) - Ch0 IN
    IF i > 9 THEN i - 7 ELSE i

\* the bytes unmungestr stores into its output buffer, before the final NUL
RECURSIVE UnmungeLoop(_, _)
UnmungeLoop(in, p) ==
    IF At(in, p) = 0 THEN <<>>
    ELSE IF At(in, p) = ChPercent /\ At(in, p + 1) # 0 /\ At(in, p + 2) # 0
         THEN <<ToByte(HexVal(At(in, p + 1)) * 16 + HexVal(At(in, p + 2)))>>
              \o UnmungeLoop(in, p + 3)
         ELSE <<At(in, p)>> \o UnmungeLoop(in, p + 1)

unmungestr(in) == CStr(UnmungeLoop(in, 1))

\* the test of the loop with all three characters fetched before they are compared
CondReads_Eager(in, p) ==
    {p} \cup (IF At(in, p) = ChPercent THEN {p + 1, p + 2} ELSE {})

\* the indices of in (from 1; Len(in)+1 is the terminating NUL) that one
\* turn of the loop of unmungestr reads: while (*in), then
\* *in == '%' && in[1] && in[2], whose && reads in[1] only after a '%' and
\* in[2] only after a non-NUL in[1]
CondReads(in, p) ==
    {p} \cup (IF At(in, p) = ChPercent
              THEN {p + 1} \cup (IF At(in, p + 1) # 0 THEN {p + 2} ELSE {})
              ELSE {})

\* the turns of the loop of unmungestr: where in stood, whether the turn took
\* the escape branch, the byte stored through out and the indices read
RECURSIVE UnmungeSteps(_, _)
UnmungeSteps(in, p) ==
    IF At(in, p) = 0 THEN <<>>
    ELSE IF At(in, p) = ChPercent /\ At(in, p + 1) # 0 /\ At(in, p + 2) # 0
         THEN <<[pos |-> p, escape |-> TRUE,
                 byte |-> ToByte(HexVal(At(in, p + 1)) * 16 + HexVal(At(in, p + 2))),
                 reads |-> CondReads(in, p)]>>
              \o UnmungeSteps(in, p + 3)
         ELSE <<[pos |-> p, escape |-> FALSE, byte |-> At(in, p),
                 reads |-> CondReads(in, p)]>>
              \o UnmungeSteps(in, p + 1)

\* the read of the while (*in) that ends the loop: the index of the NUL
FinalRead(in, steps) ==
    IF steps = <<>> THEN 1
    ELSE LET last == steps[Len(steps)] IN
         last.pos + (IF last.escape THEN 3 ELSE 1)

-----------------------------------------------------------------------------
(* Initial values of each part of the state.                               *)

CodecIdle == [stage |-> "idle", in |-> <<>>, enc |-> <<>>, dec |-> <<>>]

NoCall == [op |-> "none"]

\* no FILE* from open_settings_w; no DIR* from enum_settings_start
NoWHandle == [inuse |-> FALSE, null |-> TRUE, file |-> <<>>, buf |-> <<>>,
              linked |-> FALSE]
NoEHandle == [inuse |-> FALSE, null |-> TRUE, rest |-> {}, yielded |-> <<>>]

\* no save has been made: the profile name, the write_setting_* calls,
\* whether close_settings_w was reached and the file deleted since, and,
\* until the save is closed, the keys the file held when it began
NoHistory == [name |-> <<>>, writes |-> <<>>, closed |-> FALSE, deleted |-> FALSE,
              old |-> {}]

\* nothing stored yet, no handle open, no resource given
InitStore ==
    /\ hostkeys = NoFile
    /\ stored = <<>>
    /\ seed = NoFile
    /\ xrmtree = NullTree
    /\ whandle = NoWHandle
    /\ rhandle = NoRHandle
    /\ ehandle = NoEHandle
    /\ history = NoHistory
    /\ nopen = 0
    /\ exited = FALSE
    /\ ret = NoCall

-----------------------------------------------------------------------------
(* The name codec as a state machine: a name is encoded, then decoded.     *)

\* bytes the codec's names are drawn from: '%', ' ', '/', '1', '4', 'A',
\* '_', 'f', 0x80 and 0xFF
CodecBytes == {37, 32, 47, 49, 52, 65, 95, 102, 128, 255}

RECURSIVE SeqsUpTo(_, _)
SeqsUpTo(S, n) ==
    IF n = 0 THEN {<<>>}
    ELSE LET shorter == SeqsUpTo(S, n - 1) IN
         shorter \cup {Append(s, b) : s \in {t \in shorter : Len(t) = n - 1}, b \in S}

CodecNames == SeqsUpTo(CodecBytes, MaxNameLen) \cup {NullStr}

\* bytes of the file names found in the sessions directory, which need not
\* be encoder output: '%', '0', 'A' and 0xFF
DirentBytes == {37, 48, 65, 255}

DirentNames == SeqsUpTo(DirentBytes, MaxNameLen)

InitCodec ==
    /\ charSigned \in BOOLEAN
    /\ codec \in {[stage |-> "start", in |-> n, enc |-> <<>>, dec |-> <<>>] :
                     n \in CodecNames}
                \cup {[stage |-> "dirent", in |-> <<>>, enc |-> n, dec |-> <<>>] :
                         n \in DirentNames}
    /\ dirs = [putty |-> FALSE, sessions |-> FALSE, writable |-> TRUE]
    /\ xdefaults = {}
    /\ fd0free = FALSE
    /\ sessdir = {}
    /\ InitStore

\* munged = mungestr(subname), as make_filename calls it
CodecMunge ==
    /\ codec.stage = "start"
    /\ codec' = [codec EXCEPT !.stage = "munged", !.enc = mungestr(codec.in)]
    /\ UNCHANGED <<envVars, sessVars, trustVars, dirs, seed, nopen, exited, ret>>

\* unmunged = unmungestr(de->d_name), as enum_settings_next calls it
CodecUnmunge ==
    /\ codec.stage = "munged"
    /\ codec' = [codec EXCEPT !.stage = "decoded", !.dec = unmungestr(codec.enc)]
    /\ UNCHANGED <<envVars, sessVars, trustVars, dirs, seed, nopen, exited, ret>>

\* unmunged = unmungestr(de->d_name) on a file name that something other
\* than mungestr gave the file
CodecUnmungeDirent ==
    /\ codec.stage = "dirent"
    /\ LET steps == UnmungeSteps(codec.enc, 1) IN
       /\ codec' = [codec EXCEPT !.stage = "unmunged",
                                 !.dec = unmungestr(codec.enc)]
       /\ ret' = [op |-> "unmungestr", steps |-> steps,
                  last |-> FinalRead(codec.enc, steps),
                  alloc |-> Len(codec.enc) + 1]
    /\ UNCHANGED <<envVars, sessVars, trustVars, dirs, seed, nopen, exited>>

NextCodec == CodecMunge \/ CodecUnmunge \/ CodecUnmungeDirent

SpecCodec == InitCodec /\ [][NextCodec]_vars

\* C2: decoding the encoding of any name (a string of non-NUL bytes, the
\* empty string, punctuation such as '%' and bytes >= 0x80 included) gives
\* back the name byte for byte.
C2_RoundTrip ==
    (codec.stage = "decoded" /\ codec.in # NullStr) => codec.dec = codec.in

\* a name holding a '%' and a byte >= 0x80 has been encoded and decoded
C2_Witness ==
    /\ codec.stage = "decoded"
    /\ codec.in # NullStr
    /\ \E i \in 1..Len(codec.in) : codec.in[i] = ChPercent
    /\ \E i \in 1..Len(codec.in) : codec.in[i] >= 128
    /\ Len(codec.enc) > Len(codec.in)

\* the characters mungestr may leave unescaped
SafeAlphabet ==
    (Ch0..Ch9) \cup (ChA..ChZ) \cup (Cha..Chz)
    \cup {ChPlus, ChMinus, ChDot, ChAt, ChUnderscore}

\* the value of an upper-case hexadecimal digit, -1 for any other character
UpperHexValue(c) ==
    IF c \in Ch0..Ch9 THEN c - Ch0
    ELSE IF c \in ChA..ChF THEN c - ChA + 10
    ELSE -1

\* the bytes an encoded name stands for, read from position i on: a '%'
\* with its two upper-case digits is one byte, any other character of the
\* alphabet is itself; <<-1>> when the text is not of that form
RECURSIVE EscapedBytes(_, _)
EscapedBytes(e, i) ==
    IF i > Len(e) THEN <<>>
    ELSE IF e[i] = ChPercent
         THEN IF i + 2 <= Len(e) /\ UpperHexValue(e[i + 1]) >= 0
                 /\ UpperHexValue(e[i + 2]) >= 0
              THEN <<UpperHexValue(e[i + 1]) * 16 + UpperHexValue(e[i + 2])>>
                   \o EscapedBytes(e, i + 3)
              ELSE <<-1>>
         ELSE IF e[i] \in SafeAlphabet THEN <<e[i]>> \o EscapedBytes(e, i + 1)
         ELSE <<-1>>

\* C11: the encoding of any name holds only 0-9, A-Z, a-z, '+', '-', '.',
\* '@', '_' and '%', and every '%' in it is followed by exactly two
\* upper-case hexadecimal digits that give the value of the escaped byte.
C11_OutputAlphabet ==
    codec.stage \in {"munged", "decoded"} =>
        /\ \A i \in 1..Len(codec.enc) :
              codec.enc[i] \in SafeAlphabet \cup {ChPercent}
        /\ EscapedBytes(codec.enc, 1) =
              (IF codec.in = NullStr THEN DefaultSettings ELSE codec.in)

\* a name with a space and a byte >= 0x80 has been encoded into escapes
C11_Witness ==
    /\ codec.stage = "munged"
    /\ codec.in # NullStr
    /\ \E i \in 1..Len(codec.in) : codec.in[i] = ChSpace
    /\ \E i \in 1..Len(codec.in) : codec.in[i] >= 128
    /\ \E i \in 1..Len(codec.enc) : codec.enc[i] = ChPercent

\* C18: for any input string, encoder output or not, unmungestr reads no
\* index past the terminating NUL, stores at most length+1 bytes, and a '%'
\* it meets with fewer than two characters left before the end is copied
\* through as a literal '%'.
C18_DecoderBounds ==
    (codec.stage = "unmunged" /\ ret.op = "unmungestr") =>
        LET in == codec.enc
            nul == Len(in) + 1 IN
        /\ ret.last <= nul
        /\ \A k \in 1..Len(ret.steps) :
              /\ \A r \in ret.steps[k].reads : r <= nul
              /\ (in[ret.steps[k].pos] = ChPercent /\ ret.steps[k].pos + 2 > Len(in))
                    => (~ret.steps[k].escape /\ ret.steps[k].byte = ChPercent)
        /\ Len(ret.steps) + 1 <= ret.alloc
        /\ codec.dec = CStr([k \in 1..Len(ret.steps) |-> ret.steps[k].byte])

\* a file name that ends in a '%' with one character after it was decoded
C18_Witness ==
    /\ codec.stage = "unmunged"
    /\ ret.op = "unmungestr"
    /\ Len(codec.enc) = 3
    /\ codec.enc[2] = ChPercent
    /\ codec.enc[1] # ChPercent
    /\ Len(ret.steps) = 3

-----------------------------------------------------------------------------
(* Line reading and number formatting.                                     *)

\* the digits of n >= 0 in base 10 (printf "%d" of a non-negative int)
RECURSIVE Digits(_)
Digits(n) ==
    IF n < 10 THEN <<Ch0 + n>>
    ELSE Append(Digits(n \div 10), Ch0 + (n % 10))

\* sprintf(porttext, "%d", n)
Decimal(n) == IF n < 0 THEN <<ChMinus>> \o Digits(-n) ELSE Digits(n)

\* fgetline(fp) with the stream at byte pos of data: the bytes up to and
\* including the next newline, or to end of file; NullStr at end of file
fgetline(data, pos) ==
    IF pos > Len(data) THEN NullStr
    ELSE LET nl == FirstIn(data, {ChNL}, pos) IN
         SubSeq(data, pos, IF nl > Len(data) THEN Len(data) ELSE nl)

\* buf[strcspn(buf, cs)] = '\0': cut a string at its first byte in cs
CutAt(str, cs) == SubSeq(str, 1, FirstIn(str, cs, 1) - 1)

-----------------------------------------------------------------------------
(* Host trust store.                                                       *)

\* the body of verify_host_key's loop for one line: 1 when a field test
\* jumps to done, else 0 (key matched) or 2 (key mismatch)
VerifyLine(line0, hostname, port, keytype, key) ==
    LET line == CutAt(line0, {ChNL})
        p1 == 1
        p2 == p1 + Len(keytype)
        porttext == Decimal(port)
        p3 == p2 + 1 + Len(porttext)
        p4 == p3 + 1 + Len(hostname)
    IN  IF ~ StartsWith(Drop(line, p1 - 1), keytype) THEN 1
        ELSE IF At(line, p2) # ChAt THEN 1
        ELSE IF ~ StartsWith(Drop(line, p2), porttext) THEN 1
        ELSE IF At(line, p3) # ChColon THEN 1
        ELSE IF ~ StartsWith(Drop(line, p3), hostname) THEN 1
        ELSE IF At(line, p4) # ChSpace THEN 1
        ELSE IF Drop(line, p4) = key THEN 0
        ELSE 2

\* a scan that keeps going after a hit: the last matching line decides
RECURSIVE VerifyLoop_LastWins(_, _, _, _, _, _)
VerifyLoop_LastWins(data, pos, hostname, port, keytype, key) ==
    LET line == fgetline(data, pos) IN
    IF line = NullStr THEN 1
    ELSE LET r == VerifyLine(line, hostname, port, keytype, key)
             later == VerifyLoop_LastWins(data, pos + Len(line), hostname, port,
                                          keytype, key)
         IN  IF later # 1 THEN later ELSE r

\* while ((line = fgetline(fp))) { ... if (ret != 1) break; }
RECURSIVE VerifyLoop(_, _, _, _, _, _)
VerifyLoop(data, pos, hostname, port, keytype, key) ==
    LET line == fgetline(data, pos) IN
    IF line = NullStr THEN 1
    ELSE LET r == VerifyLine(line, hostname, port, keytype, key) IN
         IF r # 1 THEN r
         ELSE VerifyLoop(data, pos + Len(line), hostname, port, keytype, key)

\* the value verify_host_key returns for the host-key file f
verify_host_key(f, hostname, port, keytype, key) ==
    IF f = NoFile THEN 1
    ELSE VerifyLoop(f, 1, hostname, port, keytype, key)

\* a store that opens the file with O_TRUNC instead of O_APPEND
AppendTo_Truncate(file, text) == text

\* open(O_CREAT | O_APPEND), fdopen "a", fprintf, fclose: the text goes
\* after the file's last byte, into a new file if there was none
AppendTo(file, text) == (IF file = NoFile THEN <<>> ELSE file) \o text

\* fprintf(fp, "%s@%d:%s %s\n", keytype, port, hostname, key)
HostKeyLine(hostname, port, keytype, key) ==
    keytype \o <<ChAt>> \o Decimal(port) \o <<ChColon>> \o hostname
        \o <<ChSpace>> \o key \o <<ChNL>>

\* verify_host_key: the stream it opens is not closed before it returns
VerifyHostKey(hostname, port, keytype, key) ==
    /\ ~ exited
    /\ hostkeys # NoFile => nopen < MaxOpen
    /\ ret' = [op |-> "verify_host_key", hostname |-> hostname, port |-> port,
               keytype |-> keytype, key |-> key,
               ret |-> verify_host_key(hostkeys, hostname, port, keytype, key)]
    /\ nopen' = IF hostkeys = NoFile THEN nopen ELSE nopen + 1
    /\ UNCHANGED <<envVars, sessVars, trustVars, codec, dirs, seed, exited>>

\* store_host_key: open (after a mkdir of ~/.putty if the first open
\* failed), append one line, close; exit(1) if the file cannot be opened
StoreHostKey(hostname, port, keytype, key) ==
    /\ ~ exited
    /\ Len(stored) < MaxHostKeyLines
    /\ LET fd1ok == dirs.putty /\ dirs.writable
           mkdirok == ~ fd1ok /\ ~ dirs.putty /\ dirs.writable
           fd2ok == fd1ok \/ mkdirok
       IN  /\ dirs' = IF mkdirok THEN [dirs EXCEPT !.putty = TRUE] ELSE dirs
           /\ IF fd2ok
              THEN /\ hostkeys' = AppendTo(hostkeys,
                                             HostKeyLine(hostname, port, keytype, key))
                   /\ stored' = Append(stored, [hostname |-> hostname, port |-> port,
                                                keytype |-> keytype, key |-> key])
                   /\ exited' = FALSE
              ELSE /\ UNCHANGED trustVars
                   /\ exited' = TRUE
           /\ ret' = [op |-> "store_host_key", hostname |-> hostname, port |-> port,
                      keytype |-> keytype, key |-> key, ok |-> fd2ok]
    /\ UNCHANGED <<envVars, sessVars, codec, seed, nopen>>

\* the arguments the trust store is called with: the identities
\* ("rsa", 22, "h"), ("rsa", 22, "h K"), ("rsa2", 22, "h") and ("rsa", 2, "h"),
\* each with the keys "K" and "K K"
TrustIds ==
    {[keytype |-> <<114, 115, 97>>, port |-> 22, hostname |-> <<104>>],
     [keytype |-> <<114, 115, 97>>, port |-> 22, hostname |-> <<104, 32, 75>>],
     [keytype |-> <<114, 115, 97, 50>>, port |-> 22, hostname |-> <<104>>],
     [keytype |-> <<114, 115, 97>>, port |-> 2, hostname |-> <<104>>]}
TrustKeys == {<<75>>, <<75, 32, 75>>}

InitTrust ==
    /\ charSigned = TRUE
    /\ codec = CodecIdle
    /\ dirs \in {[putty |-> pd, sessions |-> FALSE, writable |-> w] :
                   pd \in BOOLEAN, w \in BOOLEAN}
    /\ xdefaults = {}
    /\ fd0free = FALSE
    /\ sessdir = {}
    /\ InitStore

NextTrust ==
    \/ \E id \in TrustIds, k \in TrustKeys :
           VerifyHostKey(id.hostname, id.port, id.keytype, k)
    \/ \E id \in TrustIds, k \in TrustKeys :
           StoreHostKey(id.hostname, id.port, id.keytype, k)

SpecTrust == InitTrust /\ [][NextTrust]_vars

(* Properties of the trust store.  ret describes the last call, and every  *)
(* call sets it, so hostkeys is the file that call left behind.            *)

\* the entries of stored written for the identity of the last call
SameIdentity ==
    {i \in 1..Len(stored) :
        /\ stored[i].hostname = ret.hostname
        /\ stored[i].port = ret.port
        /\ stored[i].keytype = ret.keytype}

\* C1: for one identity the trust store answers Absent (1) while the file
\* is empty or missing; once exactly one store for (keytype, port, hostname)
\* has been made, with key K1, it answers Match (0) for K1 and Mismatch (2)
\* for every other key.
C1_TriState ==
    ret.op = "verify_host_key" =>
        /\ (hostkeys = NoFile \/ hostkeys = <<>>) => ret.ret = 1
        /\ \A i \in SameIdentity :
               SameIdentity = {i} =>
                   ret.ret = (IF ret.key = stored[i].key THEN 0 ELSE 2)

\* the lines of a file, each with its newline
RECURSIVE FileLines(_, _)
FileLines(data, pos) ==
    IF pos > Len(data) THEN <<>>
    ELSE LET nl == FirstIn(data, {ChNL}, pos)
             end == IF nl > Len(data) THEN Len(data) ELSE nl
         IN  <<SubSeq(data, pos, end)>> \o FileLines(data, end + 1)

\* "keytype@port:hostname " for the identity of the last call
QueryPrefix ==
    ret.keytype \o <<ChAt>> \o Decimal(ret.port) \o <<ChColon>> \o ret.hostname
        \o <<ChSpace>>

\* the lines of the file whose identity fields are those of the last call
Candidates ==
    LET ls == FileLines(hostkeys, 1) IN
    {i \in 1..Len(ls) : StartsWith(CutAt(ls[i], {ChNL}), QueryPrefix)}

\* C4: the earliest line in file order whose keytype, port and hostname
\* fields match the query decides verify_host_key's result and no later
\* line is consulted; with the file holding the line of
\* store_host_key(h, p, t, K1) and then that of store_host_key(h, p, t, K2),
\* K1 # K2, verify_host_key answers Match for K1 and Mismatch for K2.
C4_FirstMatchWins ==
    (ret.op = "verify_host_key" /\ hostkeys # NoFile) =>
        LET ls == FileLines(hostkeys, 1) IN
        /\ Candidates = {} => ret.ret = 1
        /\ \A i \in Candidates :
               (\A j \in Candidates : i <= j) =>
                   ret.ret = (IF Drop(CutAt(ls[i], {ChNL}), Len(QueryPrefix)) = ret.key
                              THEN 0 ELSE 2)
        /\ (/\ Len(stored) = 2
            /\ SameIdentity = {1, 2}
            /\ stored[1].key # stored[2].key)
           => /\ ret.key = stored[1].key => ret.ret = 0
              /\ ret.key = stored[2].key => ret.ret = 2

\* the second of two stores for one identity is asked for and is masked
C4_Witness ==
    /\ ret.op = "verify_host_key"
    /\ Len(stored) = 2
    /\ SameIdentity = {1, 2}
    /\ stored[1].key # stored[2].key
    /\ ret.key = stored[2].key
    /\ ret.ret = 2

\* C6: when every line of the file was stored with a port or a hostname
\* other than the queried one, verify_host_key answers Absent (1) for every
\* key, whatever characters the host names and keys contain.
C6_OtherIdentityAbsent ==
    (/\ ret.op = "verify_host_key"
     /\ \A i \in 1..Len(stored) :
            stored[i].port # ret.port \/ stored[i].hostname # ret.hostname)
    => ret.ret = 1

\* C13: a store_host_key that cannot open or create the host-key file,
\* even after its mkdir of the storage directory, fails for that one call
\* only: the process keeps running.
C13_StoreFailureLocal ==
    (ret.op = "store_host_key" /\ ~ ret.ok) => ~ exited

\* the text of the ports the trust store is called with
PortText(port) == IF port = 22 THEN <<50, 50>> ELSE <<50>>

\* the line "keytype@port:hostname key" of the call ret' describes
StoredLine ==
    ret'.keytype \o <<ChAt>> \o PortText(ret'.port) \o <<ChColon>> \o ret'.hostname
        \o <<ChSpace>> \o ret'.key \o <<ChNL>>

\* C15: every successful store_host_key leaves the lines already in the
\* host-key file as they were, in their order, and adds exactly the line
\* "keytype@port:hostname key" at the end, also when the identity has an
\* entry already; verify_host_key leaves the file as it was.
C15_AppendOnly ==
    [][
        /\ (ret'.op = "store_host_key" /\ ret'.ok) =>
             /\ hostkeys' = (IF hostkeys = NoFile THEN <<>> ELSE hostkeys)
                               \o StoredLine
             /\ FileLines(hostkeys', 1) =
                  (IF hostkeys = NoFile THEN <<>> ELSE FileLines(hostkeys, 1))
                      \o <<StoredLine>>
        /\ (ret'.op = "verify_host_key") => (hostkeys' = hostkeys)
    ]_vars

\* a second entry for one identity stands after the first in the file
C15_Witness ==
    /\ ret.op = "store_host_key"
    /\ ret.ok
    /\ Len(stored) = 2
    /\ SameIdentity = {1, 2}
    /\ stored[1].key # stored[2].key
    /\ Len(FileLines(hostkeys, 1)) = 2

-----------------------------------------------------------------------------
(* Seed store.                                                             *)

\* char buf[512] in read_random_seed
SeedChunk == 512

\* the bytes seed buffers are made of, and what a read outside the buffer
\* may find
SeedBytes == {7, 9}
JunkBytes == {7, 238}

\* the file after write() of bytes at offset pos (pos <= Len(file))
WriteAt(file, pos, bytes) ==
    SubSeq(file, 1, pos) \o bytes \o Drop(file, pos + Len(bytes))

\* what write(fd, data + off, n) can read: buffer bytes where data + off + i
\* is inside the buffer, anything where it is outside
RECURSIVE ReadBuf(_, _, _)
ReadBuf(buf, off, n) ==
    IF n = 0 THEN {<<>>}
    ELSE LET first == IF off + 1 <= Len(buf) THEN {buf[off + 1]} ELSE JunkBytes
         IN  {<<b>> \o rest : b \in first, rest \in ReadBuf(buf, off + 1, n - 1)}

\* a retry that resumes at the first byte not yet written
NextData_Resume(off, len, r) == off + r

\* len -= ret; data = (char *)data + len;  (len is already decremented)
NextData(off, len, r) == off + (len - r)

\* the loop of write_random_seed from file offset pos, with data at offset
\* off of the buffer and len bytes to go: every way it can end, over every
\* result write() can report (-1, 0, or 1..len bytes written)
RECURSIVE SeedWriteLoop(_, _, _, _, _, _)
SeedWriteLoop(file, pos, off, len, buf, oob) ==
    IF len <= 0
    THEN {[file |-> file, progress |-> TRUE, delivered |-> pos, oob |-> oob]}
    ELSE {[file |-> file, progress |-> FALSE, delivered |-> pos, oob |-> oob]}
         \cup UNION {
               UNION { SeedWriteLoop(WriteAt(file, pos, bytes), pos + r,
                                     NextData(off, len, r), len - r, buf,
                                     oob \/ off + r > Len(buf)) :
                       bytes \in ReadBuf(buf, off, r) } :
               r \in 1..len }

\* write_random_seed(data, len) with the buffer buf of len bytes
WriteRandomSeed(buf) ==
    /\ ~ exited
    /\ LET fd1ok == dirs.putty /\ dirs.writable
           mkdirok == ~ fd1ok /\ ~ dirs.putty /\ dirs.writable
           fd2ok == fd1ok \/ mkdirok
           old == IF seed = NoFile THEN <<>> ELSE seed
       IN  /\ dirs' = IF mkdirok THEN [dirs EXCEPT !.putty = TRUE] ELSE dirs
           /\ IF fd2ok
              THEN \E o \in SeedWriteLoop(old, 0, 0, Len(buf), buf, FALSE) :
                      /\ seed' = o.file
                      /\ ret' = [op |-> "write_random_seed", data |-> buf,
                                 opened |-> TRUE, progress |-> o.progress,
                                 delivered |-> o.delivered, oob |-> o.oob]
              ELSE /\ seed' = seed
                   /\ ret' = [op |-> "write_random_seed", data |-> buf,
                              opened |-> FALSE, progress |-> Len(buf) = 0,
                              delivered |-> 0, oob |-> FALSE]
    /\ UNCHANGED <<envVars, sessVars, trustVars, codec, nopen, exited>>

\* the chunks read() can deliver from offset pos: each of 1..512 bytes
RECURSIVE ReadChunks(_, _)
ReadChunks(file, pos) ==
    IF pos >= Len(file) THEN {<<>>}
    ELSE LET most == IF Len(file) - pos < SeedChunk THEN Len(file) - pos
                     ELSE SeedChunk
         IN  UNION { {<<SubSeq(file, pos + 1, pos + r)>> \o rest :
                        rest \in ReadChunks(file, pos + r)} : r \in 1..most }

\* read_random_seed(consumer): fd = open(...); if (fd) { read loop; close }.
\* open gives -1 for a missing file (read(-1) then fails at once) and the
\* lowest free descriptor otherwise, which is 0 when descriptor 0 is free;
\* a descriptor 0 is left open, and so is no longer free
ReadRandomSeed ==
    /\ ~ exited
    /\ LET fd == IF seed = NoFile THEN -1 ELSE IF fd0free THEN 0 ELSE 3
       IN  IF fd # 0
           THEN /\ \E chunks \in (IF fd < 0 THEN {<<>>} ELSE ReadChunks(seed, 0)) :
                       ret' = [op |-> "read_random_seed", fd |-> fd,
                               consumed |-> chunks]
                /\ nopen' = nopen
                /\ fd0free' = fd0free
           ELSE /\ ret' = [op |-> "read_random_seed", fd |-> fd, consumed |-> <<>>]
                /\ nopen < MaxOpen
                /\ nopen' = nopen + 1
                /\ fd0free' = FALSE
    /\ UNCHANGED <<charSigned, xdefaults, sessVars, trustVars, codec, dirs, seed,
                   exited>>

SeedBufs == SeqsUpTo(SeedBytes, MaxSeedLen)

InitSeed ==
    /\ charSigned = TRUE
    /\ codec = CodecIdle
    /\ dirs \in {[putty |-> pd, sessions |-> FALSE, writable |-> w] :
                   pd \in BOOLEAN, w \in BOOLEAN}
    /\ xdefaults = {}
    /\ fd0free \in BOOLEAN
    /\ sessdir = {}
    /\ InitStore

NextSeed ==
    \/ \E buf \in SeedBufs : WriteRandomSeed(buf)
    \/ ReadRandomSeed

SpecSeed == InitSeed /\ [][NextSeed]_vars

\* C3: when every write() call makes progress (returns between 1 and the
\* count asked for), write_random_seed ends with the first len bytes of the
\* seed file equal to the buffer, in order: each retry resumes at the first
\* byte not yet written.
C3_ShortWrites ==
    (ret.op = "write_random_seed" /\ ret.opened /\ ret.progress) =>
        /\ Len(seed) >= Len(ret.data)
        /\ SubSeq(seed, 1, Len(ret.data)) = ret.data

\* the bytes of a sequence of chunks, in order
RECURSIVE Concat(_)
Concat(chunks) ==
    IF chunks = <<>> THEN <<>> ELSE Head(chunks) \o Concat(Tail(chunks))

\* C14: read_random_seed never calls the consumer when the seed file does
\* not exist; when the file exists, whatever descriptor open() returned, 0
\* included, the consumer is called once per chunk of 1 to 512 bytes, in
\* file order, and the chunks together are the whole file.
C14_SeedStreaming ==
    ret.op = "read_random_seed" =>
        /\ seed = NoFile => ret.consumed = <<>>
        /\ seed # NoFile =>
              /\ Concat(ret.consumed) = seed
              /\ \A i \in 1..Len(ret.consumed) :
                    Len(ret.consumed[i]) \in 1..SeedChunk

\* the length of the seed file, 0 when there is none
SeedLen(f) == IF f = NoFile THEN 0 ELSE Len(f)

\* a write_random_seed that opened the file leaves it max(M, k) bytes long
\* with every old byte from offset k on in place
SeedWriteFrame ==
    [][(ret'.op = "write_random_seed" /\ ret'.opened) =>
          /\ SeedLen(seed') = (IF SeedLen(seed) > ret'.delivered
                               THEN SeedLen(seed) ELSE ret'.delivered)
          /\ \A i \in (ret'.delivered + 1)..SeedLen(seed) : seed'[i] = seed[i]]_vars

\* C20: a write_random_seed that delivers k bytes onto a seed file of M
\* bytes leaves the file max(M, k) bytes long with every old byte at an
\* offset >= k unchanged, and a read_random_seed that follows the write of
\* a seed shorter than the old file delivers the new bytes and then the
\* stale tail of the old file.
C20_NeverShortens ==
    [][
        /\ (ret'.op = "write_random_seed" /\ ret'.opened) =>
              /\ SeedLen(seed') = (IF SeedLen(seed) > ret'.delivered
                                   THEN SeedLen(seed) ELSE ret'.delivered)
              /\ \A i \in (ret'.delivered + 1)..SeedLen(seed) : seed'[i] = seed[i]
        /\ (/\ ret.op = "write_random_seed"
            /\ ret.opened
            /\ ret.progress
            /\ SeedLen(seed) > Len(ret.data)
            /\ ret'.op = "read_random_seed")
           => Concat(ret'.consumed) = ret.data \o Drop(seed, Len(ret.data))
    ]_vars

-----------------------------------------------------------------------------
(* Session store: trees of keyvals, the fallback, the parser.              *)

HasKey(t, key) == \E e \in t : e.key = key

\* find234(tree, &tmp, NULL)->value, or NullStr when find234 returns NULL
FindValue(t, key) ==
    IF HasKey(t, key) THEN (CHOOSE e \in t : e.key = key).value ELSE NullStr

\* add234(tree, kv): an element comparing equal to one already in the tree
\* is not added (the existing element is returned to the caller)
add234(t, kv) == IF HasKey(t, kv.key) THEN t ELSE t \cup {kv}

\* del234(tree, e) for the element with e's key
del234(t, key) == {e \in t : e.key # key}

\* isspace() in the C locale
IsSpace(b) == b \in {9, 10, 11, 12, 13, 32}

RECURSIVE SkipSpace(_, _)
SkipSpace(str, i) ==
    IF i <= Len(str) /\ IsSpace(str[i]) THEN SkipSpace(str, i + 1) ELSE i

\* the loop  while (p > string && p[-1] != '.' && p[-1] != '*') p--;
RECURSIVE KeyStart(_, _)
KeyStart(string, p) ==
    IF p > 1 /\ string[p - 1] # ChDot /\ string[p - 1] # 42
    THEN KeyStart(string, p - 1) ELSE p

\* the xrmtree provide_xrm_string(string) leaves behind
provide_xrm_string(xt, string) ==
    LET colon == FirstIn(string, {ChColon}, 1) IN
    IF colon > Len(string) THEN xt
    ELSE LET p == KeyStart(string, colon)
             key == SubSeq(string, p, colon - 1)
             value == Drop(string, SkipSpace(string, colon + 1) - 1)
             xrms == [key |-> key, value |-> value]
             added == add234(xt.tree, xrms)
         IN  Tree(add234(del234(added, key), xrms))

\* x_get_default(key): the built-in resource default, or NULL
x_get_default(key) == FindValue(xdefaults, key)

\* get_setting(key)
get_setting(key) ==
    IF ~ xrmtree.null /\ HasKey(xrmtree.tree, key)
    THEN FindValue(xrmtree.tree, key)
    ELSE x_get_default(key)

\* a parser that keeps the trailing newline in the value
SettingValue_NoTrim(line, eq) == Drop(line, eq)

\* value = strchr(line, '=') + 1; value[strcspn(value, "\r\n")] = '\0';
SettingValue(line, eq) == CutAt(Drop(line, eq), {ChCR, ChNL})

\* the loop of open_settings_r over the file's lines
RECURSIVE ParseLoop(_, _, _)
ParseLoop(data, pos, t) ==
    LET line == fgetline(data, pos) IN
    IF line = NullStr THEN t
    ELSE LET eq == FirstIn(line, {ChEq}, 1) IN
         IF eq > Len(line)
         THEN ParseLoop(data, pos + Len(line), t)
         ELSE ParseLoop(data, pos + Len(line),
                        add234(t, [key |-> SubSeq(line, 1, eq - 1),
                                   value |-> SettingValue(line, eq)]))

\* the regular file of the sessions directory with this name, if any
HasFile(name) == \E e \in sessdir : e.name = name /\ e.kind = "reg"
FileData(name) == (CHOOSE e \in sessdir : e.name = name /\ e.kind = "reg").data

\* an open that returns an empty record when the file is missing
open_settings_r_EmptyTree(sessionname) ==
    IF ~ HasFile(mungestr(sessionname)) THEN Tree({})
    ELSE Tree(ParseLoop(FileData(mungestr(sessionname)), 1, {}))

\* the pointer open_settings_r(sessionname) returns
open_settings_r(sessionname) ==
    IF ~ HasFile(mungestr(sessionname)) THEN NullTree
    ELSE Tree(ParseLoop(FileData(mungestr(sessionname)), 1, {}))

\* a lookup that asks the fallback first
SettingVal_FallbackFirst(h, key) ==
    IF get_setting(key) # NullStr THEN get_setting(key)
    ELSE IF ~ h.null /\ HasKey(h.tree, key) THEN FindValue(h.tree, key)
    ELSE NullStr

\* the val both read_setting_s and read_setting_i compute
SettingVal(h, key) ==
    IF ~ h.null /\ HasKey(h.tree, key) THEN FindValue(h.tree, key)
    ELSE get_setting(key)

\* what read_setting_s returns: NULL, or the buffer's contents
read_setting_s(h, key, buflen) ==
    LET val == SettingVal(h, key) IN
    IF val = NullStr THEN NullStr ELSE StrNCpy(val, buflen)

\* atoi(): optional white space, an optional sign, then decimal digits
RECURSIVE AtoiDigits(_, _, _)
AtoiDigits(str, i, acc) ==
    IF i <= Len(str) /\ str[i] >= Ch0 /\ str[i] <= Ch9
    THEN AtoiDigits(str, i + 1, acc * 10 + (str[i] - Ch0))
    ELSE acc

atoi(str) ==
    LET i == SkipSpace(str, 1) IN
    IF At(str, i) = ChMinus THEN 0 - AtoiDigits(str, i + 1, 0)
    ELSE IF At(str, i) = ChPlus THEN AtoiDigits(str, i + 1, 0)
    ELSE AtoiDigits(str, i, 0)

\* what read_setting_i returns
read_setting_i(h, key, defvalue) ==
    LET val == SettingVal(h, key) IN
    IF val = NullStr THEN defvalue ELSE atoi(val)

-----------------------------------------------------------------------------
(* Session store: the calls.  A caller holds one handle at a time: a call  *)
(* that opens a handle is made when no other handle is in use.  Profile    *)
(* names are such that the encoded path is no directory ("", "." and ".." *)
(* are not drawn).                                                         *)

NoHandleInUse == ~ whandle.inuse /\ ~ rhandle.inuse /\ ~ ehandle.inuse

\* the entries "." and ".." of a directory just made
DotEntries ==
    {[name |-> <<ChDot>>, kind |-> "dir", data |-> <<>>],
     [name |-> <<ChDot, ChDot>>, kind |-> "dir", data |-> <<>>]}

\* provide_xrm_string(string)
ProvideXrmString(string) ==
    /\ ~ exited
    /\ xrmtree' = provide_xrm_string(xrmtree, string)
    /\ ret' = [op |-> "provide_xrm_string"]
    /\ UNCHANGED <<envVars, trustVars, sessdir, whandle, rhandle, ehandle, history,
                   codec, dirs, seed, nopen, exited>>

\* an fopen with mode "a": the file keeps what it holds
fopen_w_Append(dir, fn) ==
    IF \E e \in dir : e.name = fn THEN dir
    ELSE dir \cup {[name |-> fn, kind |-> "reg", data |-> <<>>]}

\* the directory after a successful fopen(filename, "w"): the file is there
\* and is empty
fopen_w(dir, fn) ==
    {e \in dir : e.name # fn} \cup {[name |-> fn, kind |-> "reg", data |-> <<>>]}

\* open_settings_w(sessionname): mkdir of the sessions directory, then
\* fopen(filename, "w"), which makes or empties the file
OpenSettingsW(sessionname) ==
    /\ ~ exited
    /\ NoHandleInUse
    /\ nopen < MaxOpen
    /\ LET mkdirok == dirs.putty /\ ~ dirs.sessions /\ dirs.writable
           dir == IF mkdirok THEN DotEntries ELSE sessdir
           fn == mungestr(sessionname)
           fpok == /\ dirs.sessions \/ mkdirok
                   /\ dirs.writable
                   /\ fn # <<>>
                   /\ ~ \E e \in dir : e.name = fn /\ e.kind # "reg"
       IN  /\ dirs' = IF mkdirok THEN [dirs EXCEPT !.sessions = TRUE] ELSE dirs
           /\ IF fpok
              THEN /\ sessdir' = fopen_w(dir, fn)
                   /\ whandle' = [inuse |-> TRUE, null |-> FALSE, file |-> fn,
                                  buf |-> <<>>, linked |-> TRUE]
                   /\ nopen' = nopen + 1
                   /\ history' = [name |-> sessionname, writes |-> <<>>,
                                  closed |-> FALSE, deleted |-> FALSE,
                                  old |-> IF HasFile(fn)
                                          THEN {kv.key : kv \in
                                                  ParseLoop(FileData(fn), 1, {})}
                                          ELSE {}]
              ELSE /\ sessdir' = dir
                   /\ UNCHANGED <<whandle, nopen, history>>
           /\ ret' = [op |-> "open_settings_w", name |-> sessionname, null |-> ~ fpok]
    /\ UNCHANGED <<envVars, trustVars, xrmtree, rhandle, ehandle, codec, seed, exited>>

\* fprintf(fp, "%s=%s\n", key, text): the line waits in the stream's buffer
WriteLine(key, text, isint, num) ==
    /\ ~ exited
    /\ whandle.inuse /\ ~ whandle.null
    /\ Len(history.writes) < MaxWrites
    /\ whandle' = [whandle EXCEPT !.buf = @ \o key \o <<ChEq>> \o text \o <<ChNL>>]
    /\ history' = [history EXCEPT !.writes =
                      Append(@, [key |-> key, text |-> text, isint |-> isint,
                                 num |-> num])]
    /\ UNCHANGED <<envVars, trustVars, sessdir, xrmtree, rhandle, ehandle, codec,
                   dirs, seed, nopen, exited>>

\* write_setting_s(handle, key, value)
WriteSettingS(key, value) ==
    /\ WriteLine(key, value, FALSE, 0)
    /\ ret' = [op |-> "write_setting_s"]

\* write_setting_i(handle, key, value)
WriteSettingI(key, value) ==
    /\ WriteLine(key, Decimal(value), TRUE, value)
    /\ ret' = [op |-> "write_setting_i"]

\* close_settings_w(handle): fclose flushes the buffer into the file the
\* stream was opened on, if it is still linked in the directory
CloseSettingsW ==
    /\ ~ exited
    /\ whandle.inuse /\ ~ whandle.null
    /\ sessdir' = IF whandle.linked
                  THEN {e \in sessdir : e.name # whandle.file}
                         \cup {[name |-> whandle.file, kind |-> "reg",
                                data |-> FileData(whandle.file) \o whandle.buf]}
                  ELSE sessdir
    /\ whandle' = NoWHandle
    /\ nopen' = nopen - 1
    /\ history' = [history EXCEPT !.closed = TRUE, !.old = {}]
    /\ ret' = [op |-> "close_settings_w", replaced |-> history.old]
    /\ UNCHANGED <<envVars, trustVars, xrmtree, rhandle, ehandle, codec, dirs, seed,
                   exited>>

\* open_settings_r(sessionname)
OpenSettingsR(sessionname) ==
    /\ ~ exited
    /\ NoHandleInUse
    /\ rhandle' = RHandle(open_settings_r(sessionname), sessionname)
    /\ ret' = [op |-> "open_settings_r", name |-> sessionname,
               null |-> open_settings_r(sessionname).null]
    /\ UNCHANGED <<envVars, trustVars, sessdir, xrmtree, whandle, ehandle, history,
                   codec, dirs, seed, nopen, exited>>

\* read_setting_s(handle, key, buffer, buflen), with the caller's read
\* handle (via) or with NULL
ReadSettingS(via, key, buflen) ==
    /\ ~ exited
    /\ via => rhandle.inuse
    /\ ret' = [op |-> "read_setting_s", via |-> via, key |-> key, buflen |-> buflen,
               val |-> read_setting_s(IF via THEN rhandle ELSE NullTree, key, buflen)]
    /\ UNCHANGED <<envVars, trustVars, sessVars, codec, dirs, seed, nopen, exited>>

\* read_setting_i(handle, key, defvalue)
ReadSettingI(via, key, defvalue) ==
    /\ ~ exited
    /\ via => rhandle.inuse
    /\ ret' = [op |-> "read_setting_i", via |-> via, key |-> key,
               defvalue |-> defvalue,
               val |-> read_setting_i(IF via THEN rhandle ELSE NullTree, key, defvalue)]
    /\ UNCHANGED <<envVars, trustVars, sessVars, codec, dirs, seed, nopen, exited>>

\* close_settings_r(handle)
CloseSettingsR ==
    /\ ~ exited
    /\ rhandle.inuse
    /\ rhandle' = NoRHandle
    /\ ret' = [op |-> "close_settings_r"]
    /\ UNCHANGED <<envVars, trustVars, sessdir, xrmtree, whandle, ehandle, history,
                   codec, dirs, seed, nopen, exited>>

\* an unlink that leaves the entry where it is
unlink_Nothing(dir, fn) == dir

\* the directory after a successful unlink(filename)
unlink(dir, fn) == {e \in dir : e.name # fn}

\* del_settings(sessionname): unlink(filename)
DelSettings(sessionname) ==
    /\ ~ exited
    /\ ~ ehandle.inuse
    /\ LET fn == mungestr(sessionname)
           gone == dirs.writable /\ \E e \in sessdir : e.name = fn /\ e.kind # "dir"
       IN  /\ sessdir' = IF gone THEN unlink(sessdir, fn) ELSE sessdir
           /\ whandle' = IF gone /\ whandle.inuse /\ whandle.file = fn
                         THEN [whandle EXCEPT !.linked = FALSE] ELSE whandle
           /\ history' = IF history.name = sessionname
                         THEN [history EXCEPT !.deleted = TRUE] ELSE history
           /\ ret' = [op |-> "del_settings", name |-> sessionname]
    /\ UNCHANGED <<envVars, trustVars, xrmtree, rhandle, ehandle, codec, dirs, seed,
                   nopen, exited>>

\* the arguments of the session calls: the profile "a b"; the keys "k" and
\* "j"; the string values "v" and "=w"; the integers 22 and -5; buffers of
\* 2 and 8 bytes; the default 5; the resource strings "k:F", "a.k: G" and "x"
SessNames == {<<97, 32, 98>>}
SessKeys == {<<107>>, <<106>>}
SessValues == {<<118>>, <<61, 119>>}
SessInts == {22, -5}
BufLens == {2, 8}
DefValues == {5}
XrmStrings == {<<107, 58, 70>>, <<97, 46, 107, 58, 32, 71>>, <<120>>}

\* what x_get_default may hold: nothing, or "j" -> "7"
XDefaultTables == {{}, {[key |-> <<106>>, value |-> <<55>>]}}

InitSession ==
    /\ charSigned = TRUE
    /\ codec = CodecIdle
    /\ dirs \in {[putty |-> pd, sessions |-> FALSE, writable |-> TRUE] :
                   pd \in BOOLEAN}
    /\ xdefaults \in XDefaultTables
    /\ fd0free = FALSE
    /\ sessdir = {}
    /\ InitStore

NextSession ==
    \/ \E str \in XrmStrings : ProvideXrmString(str)
    \/ \E n \in SessNames : OpenSettingsW(n)
    \/ \E k \in SessKeys, v \in SessValues : WriteSettingS(k, v)
    \/ \E k \in SessKeys, v \in SessInts : WriteSettingI(k, v)
    \/ CloseSettingsW
    \/ \E n \in SessNames : OpenSettingsR(n)
    \/ \E via \in BOOLEAN, k \in SessKeys, b \in BufLens : ReadSettingS(via, k, b)
    \/ \E via \in BOOLEAN, k \in SessKeys, d \in DefValues : ReadSettingI(via, k, d)
    \/ CloseSettingsR
    \/ \E n \in SessNames : DelSettings(n)

SpecSession == InitSession /\ [][NextSession]_vars

(* Properties of the session store.  ret describes the last call.  While   *)
(* a read handle is in use no save is made, so when the handle's name is   *)
(* that of the last save, closed and not deleted since, the handle was     *)
(* opened on the file that save wrote.                                     *)

\* the read handle in use was opened on the file the last save wrote
ReadsLastSave ==
    /\ rhandle.inuse /\ ~ rhandle.null
    /\ rhandle.name = history.name
    /\ history.closed /\ ~ history.deleted

\* the write_setting_* calls of the last save that wrote the queried key
WritesOfKey == {i \in 1..Len(history.writes) : history.writes[i].key = ret.key}

\* C5: when the session file holds two or more lines with one key, the
\* record open_settings_r builds maps the key to the value of the last such
\* line, and read_setting_s on that handle returns that value.
C5_LastDuplicateWins ==
    (/\ ret.op = "read_setting_s" /\ ret.via
     /\ ReadsLastSave
     /\ Cardinality(WritesOfKey) >= 2)
    => \A i \in WritesOfKey :
           ((\A j \in WritesOfKey : j <= i)
            /\ ret.buflen > Len(history.writes[i].text))
           => ret.val = history.writes[i].text

\* the first line with the key is what the record holds
FirstDuplicateWins ==
    (/\ ret.op = "read_setting_s" /\ ret.via
     /\ ReadsLastSave
     /\ Cardinality(WritesOfKey) >= 2)
    => \A i \in WritesOfKey :
           ((\A j \in WritesOfKey : i <= j)
            /\ ret.buflen > Len(history.writes[i].text))
           => ret.val = history.writes[i].text

\* C7: read_setting_s returns the value of the open record whenever the
\* record has the key; with a NULL handle or a record lacking the key it
\* returns the fallback's value (get_setting) when the fallback has the
\* key; it returns NULL only when neither has it.
C7_LayeredLookup ==
    ret.op = "read_setting_s" =>
        LET inrec == ret.via /\ ~ rhandle.null /\ HasKey(rhandle.tree, ret.key)
            infall == \/ ~ xrmtree.null /\ HasKey(xrmtree.tree, ret.key)
                      \/ HasKey(xdefaults, ret.key)
        IN  /\ inrec => ret.val = StrNCpy(FindValue(rhandle.tree, ret.key), ret.buflen)
            /\ (~ inrec /\ infall) =>
                   /\ ret.val # NullStr
                   /\ ret.val = StrNCpy(get_setting(ret.key), ret.buflen)
            /\ ret.val = NullStr <=> (~ inrec /\ ~ infall)

\* the record and the fallback hold the key with different values and the
\* record's value is returned
C7_Witness ==
    /\ ret.op = "read_setting_s" /\ ret.via
    /\ ~ rhandle.null /\ HasKey(rhandle.tree, ret.key)
    /\ get_setting(ret.key) # NullStr
    /\ get_setting(ret.key) # FindValue(rhandle.tree, ret.key)
    /\ ret.val = FindValue(rhandle.tree, ret.key)

\* the keys of the last save are pairwise distinct
DistinctKeys ==
    \A i, j \in 1..Len(history.writes) :
        history.writes[i].key = history.writes[j].key => i = j

\* C8: after a save whose writes have pairwise distinct keys, a handle from
\* open_settings_r on the same name gives back, for every written key, the
\* written string through read_setting_s (in a buffer that holds it) and
\* the written integer through read_setting_i, whatever the fallback holds.
C8_SessionRoundTrip ==
    (/\ ret.op \in {"read_setting_s", "read_setting_i"} /\ ret.via
     /\ ReadsLastSave
     /\ DistinctKeys)
    => \A i \in WritesOfKey :
           /\ (ret.op = "read_setting_s" /\ ret.buflen > Len(history.writes[i].text))
                  => ret.val = history.writes[i].text
           /\ (ret.op = "read_setting_i" /\ history.writes[i].isint)
                  => ret.val = history.writes[i].num

\* two keys were saved, one an integer read back while the fallback holds
\* another value for it
C8_Witness ==
    /\ ret.op = "read_setting_i" /\ ret.via
    /\ ReadsLastSave
    /\ DistinctKeys
    /\ Len(history.writes) = 2
    /\ \E i \in WritesOfKey : history.writes[i].isint /\ history.writes[i].num = 22
    /\ ret.val = 22
    /\ get_setting(ret.key) # NullStr

\* a read through a NULL handle returns what the fallback gives
NullHandleReads ==
    /\ (ret.op = "read_setting_s" /\ ret.via /\ rhandle.null)
         => ret.val = (IF get_setting(ret.key) = NullStr THEN NullStr
                       ELSE StrNCpy(get_setting(ret.key), ret.buflen))
    /\ (ret.op = "read_setting_i" /\ ret.via /\ rhandle.null)
         => ret.val = (IF get_setting(ret.key) = NullStr THEN ret.defvalue
                       ELSE atoi(get_setting(ret.key)))

\* C9: open_settings_r on a name with no stored file returns NULL and
\* creates nothing, and a read through that handle returns what the
\* fallback gives: its value, or NULL / the caller's default.
C9_MissingProfile ==
    [][/\ (ret'.op = "open_settings_r" /\ ~ HasFile(mungestr(ret'.name)))
            => /\ ret'.null /\ rhandle'.null
               /\ sessdir' = sessdir /\ dirs' = dirs
               /\ hostkeys' = hostkeys /\ seed' = seed
       /\ NullHandleReads'
      ]_vars

\* a read through the NULL handle of a missing profile gave the default
C9_Witness ==
    /\ ret.op = "read_setting_i" /\ ret.via
    /\ rhandle.inuse /\ rhandle.null
    /\ ~ HasFile(mungestr(rhandle.name))
    /\ ret.val = ret.defvalue

-----------------------------------------------------------------------------
(* Saves of two profiles: the session calls on the names "a b" and "A".    *)

SaveNames == {<<97, 32, 98>>, <<65>>}
SaveValues == {<<118>>}
SaveInts == {22}

InitSave ==
    /\ charSigned = TRUE
    /\ codec = CodecIdle
    /\ dirs \in {[putty |-> TRUE, sessions |-> sd, writable |-> TRUE] :
                   sd \in BOOLEAN}
    /\ sessdir = IF dirs.sessions THEN DotEntries ELSE {}
    /\ xdefaults = {}
    /\ fd0free = FALSE
    /\ InitStore

NextSave ==
    \/ \E n \in SaveNames : OpenSettingsW(n)
    \/ \E k \in SessKeys, v \in SaveValues : WriteSettingS(k, v)
    \/ \E v \in SaveInts : WriteSettingI(<<107>>, v)
    \/ CloseSettingsW
    \/ \E n \in SaveNames : OpenSettingsR(n)
    \/ CloseSettingsR
    \/ \E n \in SaveNames : DelSettings(n)

SpecSave == InitSave /\ [][NextSave]_vars

\* the lines "key=text" of a sequence of write_setting_* calls, in order
RECURSIVE LinesOf(_)
LinesOf(writes) ==
    IF writes = <<>> THEN <<>>
    ELSE Head(writes).key \o <<ChEq>> \o Head(writes).text \o <<ChNL>>
           \o LinesOf(Tail(writes))

\* the file of the last save, once closed, holds the lines written through
\* its handle and nothing else, and a record read from it has no other key
SavedExactly ==
    /\ (history.closed /\ ~ history.deleted) =>
          /\ HasFile(mungestr(history.name))
          /\ FileData(mungestr(history.name)) = LinesOf(history.writes)
    /\ ReadsLastSave =>
          \A kv \in rhandle.tree :
              \E i \in 1..Len(history.writes) : history.writes[i].key = kv.key

\* the profile the save call ret' describes works on
SaveTarget == IF ret'.op = "open_settings_w" THEN ret'.name ELSE history'.name

\* C16: after open_settings_w(name), writes and close_settings_w the file
\* of name holds exactly the lines written through that handle, in call
\* order, with nothing of an earlier save of the name (a key only the
\* earlier save stored is not in the record of the next open_settings_r),
\* and no call of the save changes the file of another profile.
C16_SaveReplaces ==
    [][
        /\ SavedExactly'
        /\ (ret'.op \in {"open_settings_w", "write_setting_s", "write_setting_i",
                         "close_settings_w"}) =>
              \A e \in sessdir \cup sessdir' :
                  (e.kind = "reg" /\ e.name # mungestr(SaveTarget))
                      => (e \in sessdir /\ e \in sessdir')
    ]_vars

\* a profile that held the key "j" was saved again with the key "k" only,
\* next to another profile that holds settings
C16_Witness ==
    /\ ret.op = "close_settings_w"
    /\ ~ history.deleted
    /\ Len(history.writes) = 1
    /\ history.writes[1].key = <<107>>
    /\ <<106>> \in ret.replaced
    /\ FileData(mungestr(history.name)) = <<107, 61, 118, 10>>
    /\ \E e \in sessdir :
          e.kind = "reg" /\ e.name # mungestr(history.name) /\ e.data # <<>>

-----------------------------------------------------------------------------
(* Profile enumerator.  The directory is not changed while it is being     *)
(* enumerated (what readdir then returns is unspecified), so del_settings  *)
(* and open_settings_w are not called while a cursor is in use.            *)

\* a filter that lets every directory entry through
IsRegular_NoCheck(e) == TRUE

\* stat(fullpath, &st) >= 0 && S_ISREG(st.st_mode)
IsRegular(e) == e \in sessdir /\ e.kind = "reg"

\* enum_settings_start(): opendir of the sessions directory
EnumSettingsStart ==
    /\ ~ exited
    /\ NoHandleInUse
    /\ dirs.sessions => nopen < MaxOpen
    /\ ehandle' = [inuse |-> TRUE, null |-> ~ dirs.sessions,
                   rest |-> IF dirs.sessions THEN sessdir ELSE {},
                   yielded |-> <<>>]
    /\ nopen' = IF dirs.sessions THEN nopen + 1 ELSE nopen
    /\ ret' = [op |-> "enum_settings_start", null |-> ~ dirs.sessions]
    /\ UNCHANGED <<envVars, trustVars, sessdir, xrmtree, whandle, rhandle, history,
                   codec, dirs, seed, exited>>

\* enum_settings_next(handle, buffer, buflen): readdir hands out the
\* remaining entries in any order; entries that are no regular file are
\* skipped; the first regular one is decoded into the buffer.  The handle is
\* passed to readdir as it came from enum_settings_start: on a NULL handle
\* the call is readdir(NULL), whose behaviour is undefined; the outcomes
\* drawn are a NULL result and the end of the process.
EnumSettingsNext(buflen) ==
    /\ ~ exited
    /\ ehandle.inuse
    /\ \/ /\ ~ ehandle.null
          /\ \E e \in ehandle.rest, skipped \in SUBSET ehandle.rest :
                /\ IsRegular(e)
                /\ \A x \in skipped : ~ IsRegular(x)
                /\ ehandle' = [ehandle EXCEPT
                                 !.rest = (@ \ skipped) \ {e},
                                 !.yielded = Append(@,
                                     [file |-> e.name, buflen |-> buflen,
                                      val |-> StrNCpy(unmungestr(e.name), buflen)])]
                /\ ret' = [op |-> "enum_settings_next", buflen |-> buflen,
                           val |-> StrNCpy(unmungestr(e.name), buflen),
                           null |-> FALSE, undefined |-> FALSE]
          /\ UNCHANGED exited
       \/ /\ ~ ehandle.null
          /\ \A x \in ehandle.rest : ~ IsRegular(x)
          /\ ehandle' = [ehandle EXCEPT !.rest = {}]
          /\ ret' = [op |-> "enum_settings_next", buflen |-> buflen, val |-> NullStr,
                     null |-> FALSE, undefined |-> FALSE]
          /\ UNCHANGED exited
       \/ /\ ehandle.null
          /\ \E crash \in BOOLEAN : exited' = crash
          /\ ret' = [op |-> "enum_settings_next", buflen |-> buflen, val |-> NullStr,
                     null |-> TRUE, undefined |-> TRUE]
          /\ UNCHANGED ehandle
    /\ UNCHANGED <<envVars, trustVars, sessdir, xrmtree, whandle, rhandle, history,
                   codec, dirs, seed, nopen>>

\* enum_settings_finish(handle): closedir; on a NULL handle the call is
\* closedir(NULL), undefined as well: an error return that releases nothing
\* or the end of the process
EnumSettingsFinish ==
    /\ ~ exited
    /\ ehandle.inuse
    /\ \/ /\ ~ ehandle.null
          /\ nopen' = nopen - 1
          /\ ret' = [op |-> "enum_settings_finish", null |-> FALSE,
                     undefined |-> FALSE]
          /\ UNCHANGED exited
       \/ /\ ehandle.null
          /\ nopen' = nopen
          /\ \E crash \in BOOLEAN : exited' = crash
          /\ ret' = [op |-> "enum_settings_finish", null |-> TRUE,
                     undefined |-> TRUE]
    /\ ehandle' = NoEHandle
    /\ UNCHANGED <<envVars, trustVars, sessdir, xrmtree, whandle, rhandle, history,
                   codec, dirs, seed>>

\* the profiles "A", "B" and "a b"
EnumNames == {<<65>>, <<66>>, <<97, 32, 98>>}

\* what else the sessions directory may hold: a subdirectory "d!" and a
\* fifo "p!" (no encoded profile name holds a '!')
ForeignEntries ==
    {[name |-> <<100, 33>>, kind |-> "dir", data |-> <<>>],
     [name |-> <<112, 33>>, kind |-> "fifo", data |-> <<>>]}

InitEnum ==
    /\ charSigned \in BOOLEAN
    /\ codec = CodecIdle
    /\ \/ /\ dirs = [putty |-> TRUE, sessions |-> FALSE, writable |-> TRUE]
          /\ sessdir = {}
       \/ /\ dirs = [putty |-> TRUE, sessions |-> TRUE, writable |-> TRUE]
          /\ \E f \in SUBSET ForeignEntries : sessdir = DotEntries \cup f
    /\ xdefaults = {}
    /\ fd0free = FALSE
    /\ InitStore

NextEnum ==
    \/ \E n \in EnumNames : OpenSettingsW(n)
    \/ CloseSettingsW
    \/ \E n \in EnumNames : DelSettings(n)
    \/ EnumSettingsStart
    \/ \E b \in BufLens : EnumSettingsNext(b)
    \/ EnumSettingsFinish

SpecEnum == InitEnum /\ [][NextEnum]_vars

\* the names enum_settings_next has returned on the cursor in use
YieldedNames == {ehandle.yielded[i].val : i \in 1..Len(ehandle.yielded)}

\* every name was returned into a buffer that holds it
AmpleBuffers ==
    \A i \in 1..Len(ehandle.yielded) :
        ehandle.yielded[i].buflen > Len(unmungestr(ehandle.yielded[i].file))

\* C10: on an existing sessions directory, when enum_settings_next returns
\* NULL the calls before it have returned the decoded name of every regular
\* file exactly once and of no other entry, and the names returned are
\* exactly the stored profiles.
C10_EnumeratorComplete ==
    (ret.op = "enum_settings_next" /\ ret.val = NullStr) =>
        /\ \A e \in sessdir :
               Cardinality({i \in 1..Len(ehandle.yielded) :
                               ehandle.yielded[i].file = e.name})
                 = (IF e.kind = "reg" THEN 1 ELSE 0)
        /\ \A i \in 1..Len(ehandle.yielded) :
               /\ \E e \in sessdir : e.name = ehandle.yielded[i].file
               /\ ehandle.yielded[i].buflen > Len(unmungestr(ehandle.yielded[i].file))
                    => ehandle.yielded[i].val = unmungestr(ehandle.yielded[i].file)
        /\ AmpleBuffers =>
               YieldedNames = {n \in EnumNames : HasFile(mungestr(n))}

\* three profiles were enumerated to the end past a subdirectory and a fifo
C10_Witness ==
    /\ ret.op = "enum_settings_next" /\ ret.val = NullStr
    /\ ForeignEntries \subseteq sessdir
    /\ AmpleBuffers
    /\ YieldedNames = EnumNames

\* C12: when the sessions directory does not exist, enum_settings_start
\* returns an inert cursor on which enum_settings_next returns NULL without
\* handing an invalid directory handle to the library, enum_settings_finish
\* releases nothing, and the process lives on.
C12_FreshInstall ==
    (ret.op \in {"enum_settings_next", "enum_settings_finish"} /\ ret.null) =>
        /\ ~ ret.undefined
        /\ ~ exited
        /\ nopen = 0

-----------------------------------------------------------------------------
(* The whole store: the calls of the session store, the enumerator, the    *)
(* trust store and the seed store in any order, each on a small set of     *)
(* arguments.  Descriptor 0 is in use and the home directory is writable.  *)

\* the identity ("rsa", 22, "h"), the keys "K" and "L", the seed <<7>>
StoreKeys == {<<75>>, <<76>>}
StoreSeeds == {<<7>>}

Init ==
    /\ charSigned = TRUE
    /\ codec = CodecIdle
    /\ dirs \in {[putty |-> pd, sessions |-> FALSE, writable |-> TRUE] :
                   pd \in BOOLEAN}
    /\ sessdir = {}
    /\ xdefaults = {}
    /\ fd0free = FALSE
    /\ InitStore

Next ==
    \/ \E k \in StoreKeys : VerifyHostKey(<<104>>, 22, <<114, 115, 97>>, k)
    \/ StoreHostKey(<<104>>, 22, <<114, 115, 97>>, <<75>>)
    \/ \E buf \in StoreSeeds : WriteRandomSeed(buf)
    \/ ReadRandomSeed
    \/ \E n \in SaveNames : OpenSettingsW(n)
    \/ WriteSettingS(<<107>>, <<118>>)
    \/ CloseSettingsW
    \/ \E n \in SaveNames : OpenSettingsR(n)
    \/ CloseSettingsR
    \/ \E n \in SaveNames : DelSettings(n)
    \/ EnumSettingsStart
    \/ EnumSettingsNext(8)
    \/ EnumSettingsFinish

Spec == Init /\ [][Next]_vars

\* the directory dir holds a regular file for the profile name
Stored(dir, name) == \E e \in dir : e.name = mungestr(name) /\ e.kind = "reg"

\* C17: del_settings(name) leaves name without a stored file, and only a
\* later open_settings_w(name) gives it one again; while it has none
\* open_settings_r(name) returns NULL and the enumerator does not yield
\* name; a del_settings on a name with no file changes nothing and does not
\* end the process; no del_settings changes another profile, the host-key
\* file or the seed file.
C17_Delete ==
    [][
        /\ (ret'.op = "del_settings") =>
              /\ ~ Stored(sessdir', ret'.name)
              /\ ~ Stored(sessdir, ret'.name) => sessdir' = sessdir
              /\ ~ exited'
              /\ \A e \in sessdir \cup sessdir' :
                    e.name # mungestr(ret'.name) => (e \in sessdir /\ e \in sessdir')
              /\ hostkeys' = hostkeys
              /\ seed' = seed
        /\ \A n \in SaveNames :
              (~ Stored(sessdir, n) /\ Stored(sessdir', n))
                  => (ret'.op = "open_settings_w" /\ ret'.name = n)
        /\ (ret'.op = "open_settings_r" /\ ~ Stored(sessdir', ret'.name))
              => ret'.null
        /\ (ret'.op = "enum_settings_next" /\ ~ ret'.null /\ ret'.val # NullStr)
              => Stored(sessdir', ret'.val)
    ]_vars

\* a saved profile was deleted next to another saved profile, a host-key
\* file and a seed file
C17_Witness ==
    /\ ret.op = "del_settings"
    /\ history.name = ret.name /\ history.closed /\ history.deleted
    /\ ~ HasFile(mungestr(ret.name))
    /\ \E e \in sessdir : e.kind = "reg" /\ e.data # <<>>
    /\ hostkeys # NoFile
    /\ seed # NoFile

\* C19: whenever no session or enumerator handle is outstanding, the store
\* holds no open file, stream or directory handle: every call that opened
\* one has closed it, verify_host_key on each of its return paths included.
C19_NoLeakedHandles ==
    (NoHandleInUse /\ ~ exited) => nopen = 0

====
